---- MODULE Spec2Model ----
(***************************************************************************)
(* The channel codec of sprotocol.c: buffered input and output staging,    *)
(* the growable scratch buffer, the primitive codec, the handshake and the *)
(* Query / Answer / Ask message codec.                                     *)
(*                                                                         *)
(* The program is single threaded.  A call of the API runs as a sequence   *)
(* of steps; a step is one system call (read, write, poll) together with   *)
(* all the deterministic code that follows it up to the next system call   *)
(* or the return of the API function.  The peer at the other end of the    *)
(* stream sends bytes and closes the stream in steps of its own.           *)
(*                                                                         *)
(* Memory is modelled by the bytes the code can read: a buffer is the      *)
(* sequence of its defined bytes, a byte never written reads as UNINIT.    *)
(* 32-bit values are kept as the C int with the same bit pattern.          *)
(***************************************************************************)
EXTENDS Integers, Sequences, FiniteSets, TLC

\* ------------------------------------------------------------------ bounds
\* Reads and writes of at most this many bytes may also transfer one byte.
MaxByteWise == 64
\* Number of frames the peer sends in one run.
MaxFrames == 2
\* The busy loop of buffered_read_at_least is followed this many rounds.
MaxSpin == 2

\* --------------------------------------------------------------- constants
BUF_SIZE == 4096
INIT_BUF_SIZE == 256
UNINIT == 0 - 1

Ascii == [A |-> 65, B |-> 66, C |-> 67, D |-> 68, E |-> 69, F |-> 70,
          G |-> 71, H |-> 72, I |-> 73, K |-> 75, L |-> 76, M |-> 77,
          N |-> 78, O |-> 79, P |-> 80, R |-> 82, S |-> 83, T |-> 84,
          W |-> 87, X |-> 88, Z |-> 90, d0 |-> 48, d1 |-> 49]

PACK(a, b, c, d) == (d * 16777216) + (c * 65536) + (b * 256) + a

Q_OPEN == PACK(Ascii.O, Ascii.P, Ascii.E, Ascii.N)
Q_READ == PACK(Ascii.R, Ascii.E, Ascii.A, Ascii.D)
Q_WRIT == PACK(Ascii.W, Ascii.R, Ascii.I, Ascii.T)
Q_CLOS == PACK(Ascii.C, Ascii.L, Ascii.O, Ascii.S)
Q_SIZE == PACK(Ascii.S, Ascii.I, Ascii.Z, Ascii.E)
Q_SEEN == PACK(Ascii.S, Ascii.E, Ascii.E, Ascii.N)
Q_CHLD == PACK(Ascii.C, Ascii.H, Ascii.L, Ascii.D)
Q_BACK == PACK(Ascii.B, Ascii.A, Ascii.C, Ascii.K)
Q_ACCS == PACK(Ascii.A, Ascii.C, Ascii.C, Ascii.S)
Q_STAT == PACK(Ascii.S, Ascii.T, Ascii.A, Ascii.T)
Q_GPIC == PACK(Ascii.G, Ascii.P, Ascii.I, Ascii.C)
Q_SPIC == PACK(Ascii.S, Ascii.P, Ascii.I, Ascii.C)

QueryTags == {Q_OPEN, Q_READ, Q_WRIT, Q_CLOS, Q_SIZE, Q_SEEN, Q_CHLD,
              Q_BACK, Q_ACCS, Q_STAT, Q_GPIC, Q_SPIC}

HND_SERVER == <<Ascii.T, Ascii.E, Ascii.X, Ascii.P, Ascii.R, Ascii.E,
                Ascii.S, Ascii.S, Ascii.O, Ascii.S, Ascii.d0, Ascii.d1>>
HND_CLIENT == <<Ascii.T, Ascii.E, Ascii.X, Ascii.P, Ascii.R, Ascii.E,
                Ascii.S, Ascii.S, Ascii.O, Ascii.C, Ascii.d0, Ascii.d1>>

\* ------------------------------------------------------------ byte helpers
Min(a, b) == IF a < b THEN a ELSE b
Max(a, b) == IF a < b THEN b ELSE a

\* The byte at offset i (from 0) of a buffer.
At(b, i) == IF i >= 0 /\ i < Len(b) THEN b[i + 1] ELSE UNINIT

\* The n bytes at offsets [i, i + n) of a buffer.
Bytes(b, i, n) ==
  IF n <= 0 THEN <<>>
  ELSE IF i >= 0 /\ i + n <= Len(b) THEN SubSeq(b, i + 1, i + n)
  ELSE <<>> \o [k \in 1..n |-> At(b, i + k - 1)]

\* memcpy(&b[p], src, Len(src)).
Store(b, p, src) ==
  IF Len(src) = 0 THEN b
  ELSE SubSeq(b, 1, Min(p, Len(b)))
       \o (IF p > Len(b) THEN <<>> \o [k \in 1..(p - Len(b)) |-> UNINIT] ELSE <<>>)
       \o src
       \o SubSeq(b, p + Len(src) + 1, Len(b))

\* The four bytes of a 32-bit value in memory (native order, little endian).
Le32(v) == <<v % 256, (v \div 256) % 256, (v \div 65536) % 256,
             (v \div 16777216) % 256>>

\* memcpy(&u, p, 4): the 32-bit value held by four bytes.
Ld32(b) == b[1] + (256 * b[2]) + (65536 * b[3])
           + (16777216 * (IF b[4] >= 128 THEN b[4] - 256 ELSE b[4]))


\* Where a read or a write of at most k bytes may stop: after all of them,
\* after half of them and, for a short one, after a single byte.
Chunks(k) == {n \in {1, (k + 1) \div 2, k} : n >= 1 /\ (n = 1 => (k <= MaxByteWise))}

\* ------------------------------------------------------------------- state
VARIABLES
  c,        \* struct channel_s: input, output, buf, buf_size
  todo,     \* the code still to run in the current API call
  loc,      \* the local variables of the current API call
  r,        \* the query_t the caller passed to channel_read_query
  sys,      \* the system call the program is in, with its loop's variables
  status,   \* "idle": no call in progress, "run", "abort"
  ret,      \* the last API function that returned and its result
  stream,   \* all the bytes the peer sends in this run
  nsent,    \* how many of them the peer has written to the stream
  nread,    \* how many of them read() has delivered to the program
  closed,   \* the peer has closed its end
  out,      \* the bytes write() has delivered to the peer
  spins,    \* rounds of a read loop that made no progress
  decoded,  \* the queries channel_read_query has returned so far
  c_in,     \* the channel as it was when the current API call started, kept
            \* until the call has taken a tag from the input
  arg,      \* the argument of the current or last API call
  emit_in,  \* the number of bytes written or buffered for writing before it
  ncalls,   \* the number of handshakes made or messages written so far
  wire,     \* the frames of the messages written so far, one after the other
  nintr,    \* the number of system calls that were interrupted so far
  ub,       \* what memcpy with a negative size does in this build: "trap"
            \* (the process dies in it) or "skip" (it returns)
  script,   \* the queries the peer encodes into the stream
  msgs      \* the messages the caller writes

\* The program and what it has read and written.
prog == <<c, todo, loc, r, sys, status, ret, nread, out, spins, decoded,
          c_in, arg, emit_in, ncalls, wire, nintr>>

vars == <<prog, stream, nsent, closed, ub, script, msgs>>

\* The state as one value, for the operators that run the code.
M == [c |-> c, todo |-> todo, loc |-> loc, r |-> r, sys |-> sys,
      status |-> status, ret |-> ret, stream |-> stream, nsent |-> nsent,
      nread |-> nread, closed |-> closed, out |-> out, spins |-> spins,
      decoded |-> decoded, c_in |-> c_in, arg |-> arg, emit_in |-> emit_in,
      ncalls |-> ncalls, wire |-> wire, nintr |-> nintr, ub |-> ub]

SetM(m) ==
  /\ c' = m.c /\ todo' = m.todo /\ loc' = m.loc /\ r' = m.r /\ sys' = m.sys
  /\ status' = m.status /\ ret' = m.ret /\ stream' = m.stream
  /\ nsent' = m.nsent /\ nread' = m.nread /\ closed' = m.closed
  /\ out' = m.out /\ spins' = m.spins /\ decoded' = m.decoded
  /\ c_in' = m.c_in /\ arg' = m.arg /\ emit_in' = m.emit_in
  /\ ncalls' = m.ncalls /\ wire' = m.wire /\ nintr' = m.nintr
  /\ script' = script /\ msgs' = msgs /\ ub' = m.ub

\* A char* into the scratch buffer: the allocation and the offset in it.
Ptr(addr, off) == [addr |-> addr, off |-> off]
NULL == Ptr(0, 0)

\* channel_new: calloc'ed channel, 256 bytes of scratch.
channel_new ==
  [input_buffer |-> <<>>, input_pos |-> 0, input_len |-> 0,
   output_buffer |-> <<>>, output_pos |-> 0,
   buf |-> <<>>, buf_size |-> INIT_BUF_SIZE, buf_addr |-> 1]

\* One piece of code of an API function: the operation, its operands and the
\* place in it where it resumes after a system call.
I(op, f, a, st) == [op |-> op, f |-> f, a |-> a, st |-> st]

NoSys == [fn |-> "none", atleast |-> 0, size |-> 0, got |-> 0, avail |-> 0,
          pos |-> 0, dst |-> "", data |-> <<>>, timeout |-> 0]

\* No answer_t or ask_t: the argument of the calls that take neither.
NoArg == [tag |-> 0, u |-> <<>>]

Loc0 == [tag |-> 0, ok |-> FALSE, pos |-> 0, pos_path |-> 0, pos_mode |-> 0,
         answer |-> <<>>, n |-> 0]

\* A query_t, and a decoded or sent query seen as values: strings and blobs
\* by their bytes.
Q0 == [tag |-> 0, time |-> 0, fid |-> 0, pos |-> 0, size |-> 0, pid |-> 0,
       cid |-> 0, exitcode |-> 0, flags |-> 0, type |-> 0, page |-> 0,
       bounds0 |-> 0, bounds1 |-> 0, bounds2 |-> 0, bounds3 |-> 0,
       path |-> <<>>, mode |-> <<>>, buf |-> <<>>]

R0 == [Q0 EXCEPT !.path = NULL, !.mode = NULL, !.buf = NULL]

\* The process dies in an operation with undefined behaviour.
Trap(m) == [m EXCEPT !.status = "crash", !.todo = <<>>, !.sys = NoSys]

\* abort(), pabort(), mabort(): the process ends.
Abort(m) == [m EXCEPT !.status = "abort", !.todo = <<>>, !.sys = NoSys]

Pop(m) == [m EXCEPT !.todo = Tail(@)]
Stage(m, st) == [m EXCEPT !.todo[1].st = st]

Return(m, fn, val) ==
  [m EXCEPT !.status = "idle", !.todo = <<>>, !.loc = Loc0,
            !.ret = [fn |-> fn, val |-> val]]

\* ------------------------------------------------------- byte buffer layer
\* Mutant of crefill: the unread bytes are not moved to the front.
crefill_no_memmove(m, at_least, st) ==
  LET avail == m.c.input_len - m.c.input_pos
      size == BUF_SIZE - avail
      c1 == [m.c EXCEPT !.input_pos = 0]
  IN IF size < at_least
     THEN Abort([m EXCEPT !.c = c1])
     ELSE [m EXCEPT !.c = c1, !.todo[1].st = st,
                    !.sys = [NoSys EXCEPT !.fn = "buffered_read_at_least",
                                          !.atleast = at_least, !.size = size,
                                          !.avail = avail]]

\* crefill, up to its call of read(): compaction, then buffered_read_at_least
\* is entered with buf = input.buffer + avail and size = BUF_SIZE - avail.
\* The code resumes at place st of the current piece once the loop is left.
crefill(m, at_least, st) ==
  LET avail == m.c.input_len - m.c.input_pos
      size == BUF_SIZE - avail
      c1 == [m.c EXCEPT !.input_buffer = Bytes(m.c.input_buffer, m.c.input_pos, avail),
                        !.input_pos = 0]
  IN IF size < at_least
     THEN Abort([m EXCEPT !.c = c1])
     ELSE [m EXCEPT !.c = c1, !.todo[1].st = st,
                    !.sys = [NoSys EXCEPT !.fn = "buffered_read_at_least",
                                          !.atleast = at_least, !.size = size,
                                          !.avail = avail]]

\* Mutant of buffered_read_at_least: every read() stores at the start of the
\* area (buf is not advanced).
buffered_read_at_least_no_advance(m, n, data) ==
  LET got == m.sys.got + n
      c1 == [m.c EXCEPT !.input_buffer = Store(@, m.sys.avail, data)]
  IN IF got >= m.sys.atleast
     THEN [done |-> TRUE,
           m |-> [m EXCEPT !.c = [c1 EXCEPT !.input_len = m.sys.avail + got],
                           !.sys = NoSys]]
     ELSE [done |-> FALSE,
           m |-> [m EXCEPT !.c = c1, !.sys.got = got, !.sys.size = @ - n,
                           !.spins = IF n = 0 THEN @ + 1 ELSE @]]

\* buffered_read_at_least after read() returned n >= 0 bytes, data: TRUE in
\* .done when the loop is left (buf >= ok); crefill then sets input.len.
buffered_read_at_least(m, n, data) ==
  LET got == m.sys.got + n
      c1 == [m.c EXCEPT !.input_buffer = Store(@, m.sys.avail + m.sys.got, data)]
  IN IF got >= m.sys.atleast
     THEN [done |-> TRUE,
           m |-> [m EXCEPT !.c = [c1 EXCEPT !.input_len = m.sys.avail + got],
                           !.sys = NoSys]]
     ELSE [done |-> FALSE,
           m |-> [m EXCEPT !.c = c1, !.sys.got = got, !.sys.size = @ - n,
                           !.spins = IF n = 0 THEN @ + 1 ELSE @]]

\* read_all after read() returned n >= 0 bytes, data, for the scratch buffer
\* (read_bytes) or for the local answer[] of channel_handshake.
read_all(m, n, data) ==
  IF n = 0 THEN [done |-> TRUE, m |-> Abort(m)]
  ELSE LET m1 == IF m.sys.dst = "answer"
                 THEN [m EXCEPT !.loc.answer = Store(@, m.sys.pos, data)]
                 ELSE [m EXCEPT !.c.buf = Store(@, m.sys.pos, data)]
       IN IF m.sys.size - n > 0
          THEN [done |-> FALSE,
                m |-> [m1 EXCEPT !.sys.pos = @ + n, !.sys.size = @ - n]]
          ELSE [done |-> TRUE, m |-> [m1 EXCEPT !.sys = NoSys]]

\* Entry of read_all: no read() when size is not positive.
call_read_all(m, dst, pos, size, st) ==
  IF size > 0
  THEN [m EXCEPT !.todo[1].st = st,
                 !.sys = [NoSys EXCEPT !.fn = "read_all", !.dst = dst,
                                       !.pos = pos, !.size = size]]
  ELSE Stage(m, st)

\* write_all after write() accepted n > 0 bytes.
write_all(m, n) ==
  LET rest == SubSeq(m.sys.data, n + 1, Len(m.sys.data))
      m1 == [m EXCEPT !.out = @ \o SubSeq(m.sys.data, 1, n)]
  IN IF Len(rest) > 0
     THEN [done |-> FALSE, m |-> [m1 EXCEPT !.sys.data = rest]]
     ELSE [done |-> TRUE, m |-> [m1 EXCEPT !.sys = NoSys]]

\* Entry of write_all: no write() when size is not positive.
call_write_all(m, data, st) ==
  IF Len(data) > 0
  THEN [m EXCEPT !.todo[1].st = st,
                 !.sys = [NoSys EXCEPT !.fn = "write_all", !.data = data]]
  ELSE Stage(m, st)

\* Mutant of cflush: the output cursor is not reset after the write.
cflush_no_reset(m, i) ==
  IF i.st = 0
  THEN IF m.c.output_pos = 0 THEN Pop(m)
       ELSE call_write_all(m, Bytes(m.c.output_buffer, 0, m.c.output_pos), 1)
  ELSE Pop(m)

\* cflush: places 0 (entry) and 1 (write_all has returned).
cflush(m, i) ==
  IF i.st = 0
  THEN IF m.c.output_pos = 0 THEN Pop(m)
       ELSE call_write_all(m, Bytes(m.c.output_buffer, 0, m.c.output_pos), 1)
  ELSE Pop([m EXCEPT !.c.output_pos = 0, !.c.output_buffer = <<>>])

\* ---------------------------------------------------------- scratch buffer
\* x * 2 in a 32-bit int (two's complement wrap-around).
Twice32(x) ==
  IF x >= 1073741824 THEN ((x - 1073741824) - 1073741824) * 2
  ELSE IF x < 0 - 1073741824 THEN ((x + 1073741824) + 1073741824) * 2
  ELSE x * 2

\* Mutant of resize_buf: the old bytes are not copied to the new allocation.
resize_buf_no_memcpy(t) ==
  LET old_size == t.buf_size
      new_size == Twice32(old_size)
  IN IF new_size <= 0 THEN [t EXCEPT !.buf_addr = 0]
     ELSE [t EXCEPT !.buf = <<>>, !.buf_addr = @ + 1, !.buf_size = new_size]

\* Mutant of resize_buf: the capacity grows by its initial value.
resize_buf_linear(t) ==
  [t EXCEPT !.buf = Bytes(t.buf, 0, Min(Len(t.buf), t.buf_size)),
            !.buf_addr = @ + 1,
            !.buf_size = @ + INIT_BUF_SIZE]

\* resize_buf.  malloc of a size that is not positive as an int (a huge
\* size_t) returns NULL and mabort() ends the process: buf_addr 0 stands for
\* that end.
resize_buf(t) ==
  LET old_size == t.buf_size
      new_size == Twice32(old_size)
  IN IF new_size <= 0 THEN [t EXCEPT !.buf_addr = 0]
     ELSE [t EXCEPT !.buf = Bytes(t.buf, 0, Min(Len(t.buf), old_size)),
                    !.buf_addr = @ + 1,
                    !.buf_size = new_size]

\* The process has ended in resize_buf.
Mabort(t) == t.buf_addr = 0

\* while (cond) resize_buf(t), for the two loops that grow up to a size.
RECURSIVE resize_while_less(_, _)
resize_while_less(t, need) ==
  IF t.buf_size < need /\ ~Mabort(t)
  THEN resize_while_less(resize_buf(t), need) ELSE t

\* One round of the loop of read_zstr from its head, the byte being staged;
\* and its second half, from the return of cgetc on.
read_zstr_fetch(m) ==
  LET ch == At(m.c.input_buffer, m.c.input_pos)
  IN [m EXCEPT !.c.input_pos = @ + 1,
               !.c.buf = Store(@, m.loc.pos, <<ch>>),
               !.loc.pos = @ + 1]

read_zstr_grow(m) ==
  IF m.loc.pos = m.c.buf_size
  THEN LET t == resize_buf(m.c)
       IN IF Mabort(t) THEN Abort(m) ELSE [m EXCEPT !.c = t]
  ELSE m

read_zstr_round(m) ==
  LET g == read_zstr_grow(m) IN IF g.status = "run" THEN read_zstr_fetch(g) ELSE g

\* n rounds in a row.
RECURSIVE read_zstr_rounds(_, _)
read_zstr_rounds(m, n) ==
  IF n <= 0 THEN m
  ELSE IF n = 1 THEN read_zstr_round(m)
  ELSE LET h == read_zstr_rounds(m, n \div 2)
       IN IF h.status = "run" THEN read_zstr_rounds(h, n - (n \div 2)) ELSE h

\* The rounds the staged input allows before cgetc must refill: up to and
\* with the first zero byte, or all the staged bytes.
StagedRounds(t) ==
  LET zeros == {k \in t.input_pos..(t.input_len - 1) : At(t.input_buffer, k) = 0}
  IN IF zeros = {} THEN t.input_len - t.input_pos
     ELSE (CHOOSE k \in zeros : \A j \in zeros : k <= j) - t.input_pos + 1

\* read_zstr: places 0 (entry, p0 = *pos), 1 (head of the loop), 2 (cgetc
\* returns after its refill).
read_zstr(m, i) ==
  CASE i.st = 0 -> Stage([m EXCEPT !.loc[i.f] = m.loc.pos], 1)
    [] i.st = 1 ->
         IF m.c.input_pos = m.c.input_len
         THEN LET g == read_zstr_grow(m)
              IN IF g.status = "run" THEN crefill(g, 1, 2) ELSE g
         ELSE LET m1 == read_zstr_rounds(m, StagedRounds(m.c))
              IN IF m1.status # "run" \/ At(m1.c.input_buffer, m1.c.input_pos - 1) # 0
                 THEN m1 ELSE Pop(m1)
    [] i.st = 2 ->
         LET m1 == read_zstr_fetch(m)
         IN IF At(m1.c.input_buffer, m1.c.input_pos - 1) # 0
            THEN Stage(m1, 1) ELSE Pop(m1)

\* Mutant of read_bytes: the drained bytes are not skipped (pos += isize and
\* size -= isize are missing) before read_all.
read_bytes_no_skip(m, i, pos, size) ==
  IF i.st = 1 THEN Pop(m)
  ELSE
    LET t == resize_while_less(m.c, pos + size)
        ipos == t.input_pos
        ilen == t.input_len
        isize == ilen - ipos
    IN IF Mabort(t) THEN Abort(m)
       ELSE IF ipos + size <= ilen
       THEN Pop([m EXCEPT !.c = [t EXCEPT !.buf = Store(@, pos, Bytes(t.input_buffer, ipos, size)),
                                          !.input_pos = @ + size]])
       ELSE call_read_all(
              [m EXCEPT !.c = [t EXCEPT !.buf = Store(@, pos, Bytes(t.input_buffer, ipos, isize)),
                                        !.input_pos = 0, !.input_len = 0,
                                        !.input_buffer = <<>>]],
              "scratch", pos, size, 1)

\* read_bytes(t, pos, size): places 0 (entry) and 1 (read_all has returned).
\* With a negative size the first memcpy gets a size_t near 2^64: undefined
\* behaviour, which ends the process or returns, as ub says.
read_bytes(m, i, pos, size) ==
  IF i.st = 1 THEN Pop(m)
  ELSE
    LET t == resize_while_less(m.c, pos + size)
        ipos == t.input_pos
        ilen == t.input_len
        isize == ilen - ipos
    IN IF Mabort(t) THEN Abort(m)
       ELSE IF ipos + size <= ilen
       THEN IF size < 0 /\ m.ub = "trap" THEN Trap(m)
            ELSE Pop([m EXCEPT !.c = [t EXCEPT !.buf = Store(@, pos, Bytes(t.input_buffer, ipos, size)),
                                               !.input_pos = @ + size]])
       ELSE call_read_all(
              [m EXCEPT !.c = [t EXCEPT !.buf = Store(@, pos, Bytes(t.input_buffer, ipos, isize)),
                                        !.input_pos = 0, !.input_len = 0,
                                        !.input_buffer = <<>>]],
              "scratch", pos + isize, size - isize, 1)

\* Mutant of write_bytes: the staged output is not flushed before data that
\* does not fit behind it.
write_bytes_no_cflush(m, i, data) ==
  LET size == Len(data) IN
  CASE i.st = 0 ->
         IF m.c.output_pos + size <= BUF_SIZE
         THEN Pop([m EXCEPT !.c.output_buffer = Store(@, m.c.output_pos, data),
                            !.c.output_pos = @ + size])
         ELSE Stage(m, 2)
    [] i.st = 1 -> Stage([m EXCEPT !.c.output_pos = 0, !.c.output_buffer = <<>>], 2)
    [] i.st = 2 ->
         IF size > BUF_SIZE THEN call_write_all(m, data, 3)
         ELSE Pop([m EXCEPT !.c.output_buffer = data, !.c.output_pos = size])
    [] i.st = 3 -> Pop(m)

\* write_bytes(t, buf, size): places 0 (entry), 1 (the write_all of cflush
\* has returned), 2 (cflush has returned), 3 (the direct write_all has
\* returned).
write_bytes(m, i, data) ==
  LET size == Len(data) IN
  CASE i.st = 0 ->
         IF m.c.output_pos + size <= BUF_SIZE
         THEN Pop([m EXCEPT !.c.output_buffer = Store(@, m.c.output_pos, data),
                            !.c.output_pos = @ + size])
         ELSE IF m.c.output_pos = 0 THEN Stage(m, 2)
         ELSE call_write_all(m, Bytes(m.c.output_buffer, 0, m.c.output_pos), 1)
    [] i.st = 1 -> Stage([m EXCEPT !.c.output_pos = 0, !.c.output_buffer = <<>>], 2)
    [] i.st = 2 ->
         IF size > BUF_SIZE THEN call_write_all(m, data, 3)
         ELSE Pop([m EXCEPT !.c.output_buffer = data, !.c.output_pos = size])
    [] i.st = 3 -> Pop(m)

\* --------------------------------------------------------- primitive codec
\* Mutant of try_read_u32: a tag staged in part counts as no data.
try_read_u32_short(m, i) ==
  LET avail == m.c.input_len - m.c.input_pos IN
  CASE i.st = 0 -> IF avail = 0 THEN crefill(m, 0, 1) ELSE Stage(m, 1)
    [] i.st = 1 -> IF avail < 4 THEN Pop([m EXCEPT !.loc.ok = FALSE])
                   ELSE Stage(m, 2)
    [] i.st = 2 -> Pop([m EXCEPT !.loc.tag = Ld32(Bytes(m.c.input_buffer, m.c.input_pos, 4)),
                                 !.loc.ok = TRUE,
                                 !.c.input_pos = @ + 4])

\* Mutant of try_read_u32: with nothing staged it reports no data without
\* reading the stream.
try_read_u32_no_refill(m, i) ==
  LET avail == m.c.input_len - m.c.input_pos IN
  CASE i.st = 0 -> Stage(m, 1)
    [] i.st = 1 -> IF avail = 0 THEN Pop([m EXCEPT !.loc.ok = FALSE])
                   ELSE IF avail < 4 THEN crefill(m, 4 - avail, 2)
                   ELSE Stage(m, 2)
    [] i.st = 2 -> Pop([m EXCEPT !.loc.tag = Ld32(Bytes(m.c.input_buffer, m.c.input_pos, 4)),
                                 !.loc.ok = TRUE,
                                 !.c.input_pos = @ + 4])

\* try_read_u32: places 0 (entry), 1 (after crefill(t, 0)), 2 (the tag is
\* staged).  Its result is left in the locals ok and tag.
try_read_u32(m, i) ==
  LET avail == m.c.input_len - m.c.input_pos IN
  CASE i.st = 0 -> IF avail = 0 THEN crefill(m, 0, 1) ELSE Stage(m, 1)
    [] i.st = 1 -> IF avail = 0 THEN Pop([m EXCEPT !.loc.ok = FALSE])
                   ELSE IF avail < 4 THEN crefill(m, 4 - avail, 2)
                   ELSE Stage(m, 2)
    [] i.st = 2 -> Pop([m EXCEPT !.loc.tag = Ld32(Bytes(m.c.input_buffer, m.c.input_pos, 4)),
                                 !.loc.ok = TRUE,
                                 !.c.input_pos = @ + 4])

\* read_u32 into field i.f of the query: places 0 (entry), 1 (staged).
read_u32(m, i) ==
  LET avail == m.c.input_len - m.c.input_pos IN
  IF i.st = 0
  THEN IF avail < 4 THEN crefill(m, 4 - avail, 1) ELSE Stage(m, 1)
  ELSE Pop([m EXCEPT !.r[i.f] = Ld32(Bytes(m.c.input_buffer, m.c.input_pos, 4)),
                     !.c.input_pos = @ + 4])

\* read_f32 into field i.f of the query; the float is kept by its 4 bytes.
read_f32(m, i) ==
  LET avail == m.c.input_len - m.c.input_pos IN
  IF i.st = 0
  THEN IF avail < 4 THEN crefill(m, 4 - avail, 1) ELSE Stage(m, 1)
  ELSE Pop([m EXCEPT !.r[i.f] = Ld32(Bytes(m.c.input_buffer, m.c.input_pos, 4)),
                     !.c.input_pos = @ + 4])

write_u32(m, i) == write_bytes(m, i, Le32(i.a))
write_f32(m, i) == write_bytes(m, i, Le32(i.a))

\* ---------------------------------------------------------------- handshake
LEN(s) == Len(s)

\* strncmp(s1, s2, n) == 0, from offset k on.
RECURSIVE strncmp_eq(_, _, _, _)
strncmp_eq(s1, s2, n, k) ==
  IF k >= n THEN TRUE
  ELSE IF At(s1, k) # At(s2, k) THEN FALSE
  ELSE IF At(s1, k) = 0 THEN TRUE
  ELSE strncmp_eq(s1, s2, n, k + 1)

\* channel_handshake: write_all, read_all, strncmp.
channel_handshake_code ==
  <<I("hs_write_all", "", "", 0), I("hs_read_all", "", "", 0),
    I("hs_strncmp", "", "", 0)>>

hs_write_all(m, i) ==
  IF i.st = 0 THEN call_write_all(m, SubSeq(HND_SERVER, 1, LEN(HND_SERVER)), 1)
  ELSE Pop(m)

hs_read_all(m, i) ==
  IF i.st = 0 THEN call_read_all(m, "answer", 0, LEN(HND_CLIENT), 1)
  ELSE Pop(m)

\* Mutant of hs_strncmp: the last byte is not compared.
hs_strncmp_short(m, i) ==
  Return(m, "channel_handshake",
         strncmp_eq(HND_CLIENT, m.loc.answer, LEN(HND_CLIENT) - 1, 0))

hs_strncmp(m, i) ==
  Return(m, "channel_handshake",
         strncmp_eq(HND_CLIENT, m.loc.answer, LEN(HND_CLIENT), 0))

\* ------------------------------------------------------------ message codec
A_DONE == PACK(Ascii.D, Ascii.O, Ascii.N, Ascii.E)
A_PASS == PACK(Ascii.P, Ascii.A, Ascii.S, Ascii.S)
A_SIZE == PACK(Ascii.S, Ascii.I, Ascii.Z, Ascii.E)
A_READ == PACK(Ascii.R, Ascii.E, Ascii.A, Ascii.D)
A_FORK == PACK(Ascii.F, Ascii.O, Ascii.R, Ascii.K)
A_ACCS == PACK(Ascii.A, Ascii.C, Ascii.C, Ascii.S)
A_STAT == PACK(Ascii.S, Ascii.T, Ascii.A, Ascii.T)
A_OPEN == PACK(Ascii.O, Ascii.P, Ascii.E, Ascii.N)
A_GPIC == PACK(Ascii.G, Ascii.P, Ascii.I, Ascii.C)
C_TERM == PACK(Ascii.T, Ascii.E, Ascii.R, Ascii.M)
C_FLSH == PACK(Ascii.F, Ascii.L, Ascii.S, Ascii.H)

ACCS_PASS == 0
ACCS_OK == 1
ACCS_ENOENT == 2
ACCS_EACCES == 3

\* answer_t and ask_t: the tag and the union that follows it, as the 32-bit
\* words of the union's storage.  The members of the union share the words:
\* size.size, read.size, open.size, accs.flag, stat.flag and term.pid are its
\* first word, stat.stat follows stat.flag, gpic.bounds are its first four.
UnionWords == 17
a_size_size(a) == a.u[1]
a_read_size(a) == a.u[1]
a_open_size(a) == a.u[1]
a_accs_flag(a) == a.u[1]
a_stat_flag(a) == a.u[1]
a_stat_stat(a) ==
  [dev |-> a.u[2], ino |-> a.u[3], mode |-> a.u[4], nlink |-> a.u[5],
   uid |-> a.u[6], gid |-> a.u[7], rdev |-> a.u[8], size |-> a.u[9],
   blksize |-> a.u[10], blocks |-> a.u[11],
   atime |-> [sec |-> a.u[12], nsec |-> a.u[13]],
   ctime |-> [sec |-> a.u[14], nsec |-> a.u[15]],
   mtime |-> [sec |-> a.u[16], nsec |-> a.u[17]]]
a_gpic_bounds(a, k) == a.u[1 + k]
a_term_pid(a) == a.u[1]

\* The body of each case of the switch of channel_read_query.
query_case(tag) ==
  CASE tag = Q_OPEN -> <<I("read_u32", "fid", "", 0),
                         I("read_zstr", "pos_path", "", 0),
                         I("read_zstr", "pos_mode", "", 0),
                         I("set_ptr", "path", "pos_path", 0),
                         I("set_ptr", "mode", "pos_mode", 0)>>
    [] tag = Q_READ -> <<I("read_u32", "fid", "", 0), I("read_u32", "pos", "", 0),
                         I("read_u32", "size", "", 0)>>
    [] tag = Q_WRIT -> <<I("read_u32", "fid", "", 0), I("read_u32", "pos", "", 0),
                         I("read_u32", "size", "", 0),
                         I("read_bytes", "size", "", 0),
                         I("set_buf", "buf", "", 0)>>
    [] tag = Q_CLOS -> <<I("read_u32", "fid", "", 0)>>
    [] tag = Q_SIZE -> <<I("read_u32", "fid", "", 0)>>
    [] tag = Q_SEEN -> <<I("read_u32", "fid", "", 0), I("read_u32", "pos", "", 0)>>
    [] tag = Q_CHLD -> <<I("read_u32", "pid", "", 0)>>
    [] tag = Q_BACK -> <<I("read_u32", "pid", "", 0), I("read_u32", "cid", "", 0),
                         I("read_u32", "exitcode", "", 0)>>
    [] tag = Q_ACCS -> <<I("read_zstr", "pos_path", "", 0),
                         I("set_ptr", "path", "pos_path", 0),
                         I("read_u32", "flags", "", 0)>>
    [] tag = Q_STAT -> <<I("read_zstr", "pos_path", "", 0),
                         I("set_ptr", "path", "pos_path", 0)>>
    [] tag = Q_GPIC -> <<I("read_zstr", "pos_path", "", 0),
                         I("set_ptr", "path", "pos_path", 0),
                         I("read_u32", "type", "", 0), I("read_u32", "page", "", 0)>>
    [] tag = Q_SPIC -> <<I("read_zstr", "pos_path", "", 0),
                         I("set_ptr", "path", "pos_path", 0),
                         I("read_u32", "type", "", 0), I("read_u32", "page", "", 0),
                         I("read_f32", "bounds0", "", 0), I("read_f32", "bounds1", "", 0),
                         I("read_f32", "bounds2", "", 0), I("read_f32", "bounds3", "", 0)>>
    [] OTHER -> <<I("mabort", "", "", 0)>>

\* channel_read_query: the tag, the time, then the switch.
channel_read_query_code ==
  <<I("try_read_u32", "tag", "", 0), I("query_tag", "", "", 0),
    I("read_u32", "time", "", 0), I("query_switch", "", "", 0)>>

\* if (!try_read_u32(t, &tag)) return 0; r->tag = tag;
query_tag(m, i) ==
  IF ~m.loc.ok THEN Return(m, "channel_read_query", FALSE)
  ELSE Pop([m EXCEPT !.r.tag = m.loc.tag, !.c_in = channel_new])

\* int pos = 0; switch (tag) { ... } return 1;
query_switch(m, i) ==
  [m EXCEPT !.loc.pos = 0,
            !.todo = query_case(m.loc.tag)
                     \o <<I("query_return", "", "", 0)>>]

\* The string a char* of the query points to, up to its NUL.
CStr(t, p) ==
  LET ends == {k \in p.off..(Len(t.buf) - 1) : At(t.buf, k) = 0}
  IN IF p.addr # t.buf_addr \/ ends = {} THEN <<UNINIT>>
     ELSE Bytes(t.buf, p.off, (CHOOSE k \in ends : \A j \in ends : k <= j) - p.off)

\* The blob of n bytes a char* of the query points to.
CBlob(t, p, n) ==
  IF p.addr # t.buf_addr \/ n < 0 THEN <<UNINIT>> ELSE Bytes(t.buf, p.off, n)

\* What the caller finds in the query_t after channel_read_query returned 1:
\* the fields of the variant, the strings and the blob by their bytes.
query_value(q, t) ==
  LET b == [Q0 EXCEPT !.tag = q.tag, !.time = q.time] IN
  CASE q.tag = Q_OPEN -> [b EXCEPT !.fid = q.fid, !.path = CStr(t, q.path),
                                   !.mode = CStr(t, q.mode)]
    [] q.tag = Q_READ -> [b EXCEPT !.fid = q.fid, !.pos = q.pos, !.size = q.size]
    [] q.tag = Q_WRIT -> [b EXCEPT !.fid = q.fid, !.pos = q.pos, !.size = q.size,
                                   !.buf = CBlob(t, q.buf, q.size)]
    [] q.tag = Q_CLOS -> [b EXCEPT !.fid = q.fid]
    [] q.tag = Q_SIZE -> [b EXCEPT !.fid = q.fid]
    [] q.tag = Q_SEEN -> [b EXCEPT !.fid = q.fid, !.pos = q.pos]
    [] q.tag = Q_CHLD -> [b EXCEPT !.pid = q.pid]
    [] q.tag = Q_BACK -> [b EXCEPT !.pid = q.pid, !.cid = q.cid,
                                   !.exitcode = q.exitcode]
    [] q.tag = Q_ACCS -> [b EXCEPT !.path = CStr(t, q.path), !.flags = q.flags]
    [] q.tag = Q_STAT -> [b EXCEPT !.path = CStr(t, q.path)]
    [] q.tag = Q_GPIC -> [b EXCEPT !.path = CStr(t, q.path), !.type = q.type,
                                   !.page = q.page]
    [] q.tag = Q_SPIC -> [b EXCEPT !.path = CStr(t, q.path), !.type = q.type,
                                   !.page = q.page, !.bounds0 = q.bounds0,
                                   !.bounds1 = q.bounds1, !.bounds2 = q.bounds2,
                                   !.bounds3 = q.bounds3]
    [] OTHER -> b

query_return(m, i) ==
  Return([m EXCEPT !.decoded = Append(@, query_value(m.r, m.c))],
         "channel_read_query", TRUE)

\* write_time
write_time(tm) == <<I("write_u32", "", tm.sec, 0), I("write_u32", "", tm.nsec, 0)>>

\* The cases of the switch of channel_write_answer that write fields.
answer_read(a) ==
  <<I("write_u32", "", a_read_size(a), 0), I("write_buf", "", a_read_size(a), 0)>>

answer_accs(a) == <<I("write_u32", "", a_accs_flag(a), 0)>>

\* Mutant of the A_STAT case: nine scalar fields, blocks is not written.
answer_stat_fields_nine(st) ==
  <<I("write_u32", "", st.dev, 0), I("write_u32", "", st.ino, 0),
    I("write_u32", "", st.mode, 0), I("write_u32", "", st.nlink, 0),
    I("write_u32", "", st.uid, 0), I("write_u32", "", st.gid, 0),
    I("write_u32", "", st.rdev, 0), I("write_u32", "", st.size, 0),
    I("write_u32", "", st.blksize, 0)>>
  \o write_time(st.atime) \o write_time(st.ctime) \o write_time(st.mtime)

answer_stat_fields(st) ==
  <<I("write_u32", "", st.dev, 0), I("write_u32", "", st.ino, 0),
    I("write_u32", "", st.mode, 0), I("write_u32", "", st.nlink, 0),
    I("write_u32", "", st.uid, 0), I("write_u32", "", st.gid, 0),
    I("write_u32", "", st.rdev, 0), I("write_u32", "", st.size, 0),
    I("write_u32", "", st.blksize, 0), I("write_u32", "", st.blocks, 0)>>
  \o write_time(st.atime) \o write_time(st.ctime) \o write_time(st.mtime)

\* Mutant of answer_stat: the record is written whatever the flag.
answer_stat_always(a) ==
  <<I("write_u32", "", a_stat_flag(a), 0)>> \o answer_stat_fields(a_stat_stat(a))

answer_stat(a) ==
  <<I("write_u32", "", a_stat_flag(a), 0)>>
  \o (IF a_accs_flag(a) = ACCS_OK THEN answer_stat_fields(a_stat_stat(a))
      ELSE <<>>)

answer_size(a) == <<I("write_u32", "", a_size_size(a), 0)>>

answer_open(a) ==
  <<I("write_u32", "", a_open_size(a), 0), I("write_buf", "", a_open_size(a), 0)>>

\* Mutant of answer_gpic: bounds[2] is written before bounds[1].
answer_gpic_swapped(a) ==
  <<I("write_f32", "", a_gpic_bounds(a, 0), 0),
    I("write_f32", "", a_gpic_bounds(a, 2), 0),
    I("write_f32", "", a_gpic_bounds(a, 1), 0),
    I("write_f32", "", a_gpic_bounds(a, 3), 0)>>

answer_gpic(a) ==
  <<I("write_f32", "", a_gpic_bounds(a, 0), 0),
    I("write_f32", "", a_gpic_bounds(a, 1), 0),
    I("write_f32", "", a_gpic_bounds(a, 2), 0),
    I("write_f32", "", a_gpic_bounds(a, 3), 0)>>

\* The switch of channel_write_answer.
answer_case(a) ==
  CASE a.tag = A_DONE -> <<>>
    [] a.tag = A_PASS -> <<>>
    [] a.tag = A_FORK -> <<>>
    [] a.tag = A_READ -> answer_read(a)
    [] a.tag = A_ACCS -> answer_accs(a)
    [] a.tag = A_STAT -> answer_stat(a)
    [] a.tag = A_SIZE -> answer_size(a)
    [] a.tag = A_OPEN -> answer_open(a)
    [] a.tag = A_GPIC -> answer_gpic(a)
    [] OTHER -> <<I("mabort", "", "", 0)>>

\* channel_write_answer: write_u32(t, a->tag); switch (a->tag) { ... }
channel_write_answer_code(a) ==
  <<I("write_u32", "", a.tag, 0)>> \o answer_case(a)
  \o <<I("return", "channel_write_answer", TRUE, 0)>>

\* channel_write_ask: write_u32(t, a->tag); switch (a->tag) { ... }
channel_write_ask_code(a) ==
  <<I("write_u32", "", a.tag, 0)>>
  \o (CASE a.tag = C_TERM -> <<I("write_u32", "", a_term_pid(a), 0)>>
        [] a.tag = C_FLSH -> <<>>
        [] OTHER -> <<I("mabort", "", "", 0)>>)
  \o <<I("return", "channel_write_ask", TRUE, 0)>>

\* channel_flush
channel_flush_code ==
  <<I("cflush", "", "", 0), I("return", "channel_flush", TRUE, 0)>>

\* channel_write_buffer(t, n), and the caller filling the n bytes it asked for.
channel_write_buffer(t, n) == resize_while_less(t, n)

\* channel_has_pending_query: places 0 (entry) and 1 (in poll).
channel_has_pending_query_code(timeout) == <<I("has_pending", "", timeout, 0)>>

has_pending(m, i) ==
  IF m.c.input_pos # m.c.input_len
  THEN Return(m, "channel_has_pending_query", TRUE)
  ELSE [m EXCEPT !.todo[1].st = 1,
                 !.sys = [NoSys EXCEPT !.fn = "poll", !.timeout = i.a]]

\* Mutant of has_pending_polled: the result of poll() is not looked at.
has_pending_polled_any(m, n) ==
  Return([m EXCEPT !.sys = NoSys], "channel_has_pending_query", TRUE)

\* channel_has_pending_query after poll() returned n >= 0.
has_pending_polled(m, n) ==
  IF n = 0 THEN Return([m EXCEPT !.sys = NoSys], "channel_has_pending_query", FALSE)
  ELSE Return([m EXCEPT !.sys = NoSys], "channel_has_pending_query", TRUE)

\* Mutant of mabort: the default case of a switch falls out of the switch.
mabort_break(m) == Pop(m)

\* mabort() in the default case of a switch over a tag.
mabort(m) == Abort(m)

\* ------------------------------------------------------------- running code
\* One piece of code, up to its end or to the system call it makes.
Exec(m) ==
  LET i == Head(m.todo) IN
  CASE i.op = "try_read_u32" -> try_read_u32(m, i)
    [] i.op = "query_tag" -> query_tag(m, i)
    [] i.op = "query_switch" -> query_switch(m, i)
    [] i.op = "query_return" -> query_return(m, i)
    [] i.op = "read_u32" -> read_u32(m, i)
    [] i.op = "read_f32" -> read_f32(m, i)
    [] i.op = "read_zstr" -> read_zstr(m, i)
    [] i.op = "read_bytes" -> read_bytes(m, i, 0, m.r[i.f])
    [] i.op = "set_ptr" -> Pop([m EXCEPT !.r[i.f] = Ptr(m.c.buf_addr, m.loc[i.a])])
    [] i.op = "set_buf" -> Pop([m EXCEPT !.r[i.f] = Ptr(m.c.buf_addr, 0)])
    [] i.op = "write_u32" -> write_u32(m, i)
    [] i.op = "write_f32" -> write_f32(m, i)
    [] i.op = "write_buf" -> write_bytes(m, i, Bytes(m.c.buf, 0, i.a))
    [] i.op = "cflush" -> cflush(m, i)
    [] i.op = "has_pending" -> has_pending(m, i)
    [] i.op = "hs_write_all" -> hs_write_all(m, i)
    [] i.op = "hs_read_all" -> hs_read_all(m, i)
    [] i.op = "hs_strncmp" -> hs_strncmp(m, i)
    [] i.op = "return" -> Return(m, i.f, i.a)
    [] i.op = "mabort" -> mabort(m)

\* The code of the current call, up to its return, its abort or the next
\* system call.
RECURSIVE Run(_)
Run(m) ==
  IF m.status # "run" \/ m.sys.fn # "none" \/ m.todo = <<>> THEN m
  ELSE Run(Exec(m))

\* The caller calls an API function.
Call(m, code, a) ==
  Run([m EXCEPT !.status = "run", !.todo = code, !.loc = Loc0, !.c_in = m.c,
                !.arg = a, !.emit_in = Len(m.out) + m.c.output_pos,
                !.ret = [fn |-> "", val |-> FALSE]])

\* The caller calls an API function that takes no message: the last message
\* written stays the one the output is compared with.
CallKeep(m, code) ==
  Run([m EXCEPT !.status = "run", !.todo = code, !.loc = Loc0, !.c_in = m.c,
                !.ret = [fn |-> "", val |-> FALSE]])

\* ------------------------------------------------------------ system calls
\* read(fd, buf, size) returned n bytes (0: end of stream).
read_returns(m, n) ==
  LET data == SubSeq(m.stream, m.nread + 1, m.nread + n)
      m1 == [m EXCEPT !.nread = @ + n]
      res == IF m.sys.fn = "buffered_read_at_least"
             THEN buffered_read_at_least(m1, n, data)
             ELSE read_all(m1, n, data)
  IN IF res.done THEN Run(res.m) ELSE res.m

\* write(fd, buf, size) returned n > 0.
write_returns(m, n) ==
  LET res == write_all(m, n) IN IF res.done THEN Run(res.m) ELSE res.m

\* poll(&pfd, 1, timeout) returned n >= 0.
poll_returns(m, n) == has_pending_polled(m, n)

\* Mutant of read_fails: an interrupted read() is taken for the end of the
\* loop's work, as any other failure.
read_fails_fatal(m, errno) == Abort(m)

\* read() returned -1: continue when errno is EINTR, else pabort().
read_fails(m, errno) == IF errno = "EINTR" THEN m ELSE Abort(m)

\* write() returned -1: continue when errno is EINTR, else pabort().
write_fails(m, errno) == IF errno = "EINTR" THEN m ELSE Abort(m)

\* poll() returned -1: poll again when errno is EINTR, else pabort().
poll_fails(m, errno) == IF errno = "EINTR" THEN m ELSE Abort(m)

\* The bytes written by the peer and not yet read.
InFlight == nsent - nread

\* What a read() that could return k bytes returns.  Short reads are explored
\* once the peer has written the whole stream; while it is still writing, a
\* read takes what is there.
ReadSizes(k) == IF nsent = Len(stream) THEN Chunks(k) ELSE {k}

SysRead ==
  /\ status = "run"
  /\ sys.fn \in {"buffered_read_at_least", "read_all"}
  /\ InFlight > 0
  /\ \E n \in ReadSizes(Min(sys.size, InFlight)) : SetM(read_returns(M, n))

\* read() at the end of a closed stream returns 0.
SysReadEof ==
  /\ status = "run"
  /\ sys.fn \in {"buffered_read_at_least", "read_all"}
  /\ InFlight = 0 /\ closed
  /\ spins < MaxSpin
  /\ SetM(read_returns(M, 0))

SysWrite ==
  /\ status = "run"
  /\ sys.fn = "write_all"
  /\ \E n \in Chunks(Len(sys.data)) : SetM(write_returns(M, n))

\* poll() reports the stream readable when bytes are in flight and when the
\* peer has closed it (end of stream, POLLHUP); it returns 0 when its timeout
\* ends first, which a negative timeout never does.
SysPoll ==
  /\ status = "run"
  /\ sys.fn = "poll"
  /\ \/ (InFlight > 0 \/ closed) /\ SetM(poll_returns(M, 1))
     \/ ~(InFlight > 0 \/ closed) /\ sys.timeout >= 0 /\ SetM(poll_returns(M, 0))

\* The interruptions one run takes.
MaxEintr == 2

\* The errors a system call fails with; nintr counts the interruptions.
Errnos == {"EINTR", "EIO"}
Interrupted(m, errno) ==
  IF errno = "EINTR" THEN [m EXCEPT !.nintr = @ + 1] ELSE m

SysReadFails ==
  /\ status = "run"
  /\ sys.fn \in {"buffered_read_at_least", "read_all"}
  /\ \E errno \in Errnos :
       /\ errno = "EINTR" => nintr < MaxEintr
       /\ SetM(read_fails(Interrupted(M, errno), errno))

SysWriteFails ==
  /\ status = "run"
  /\ sys.fn = "write_all"
  /\ \E errno \in Errnos :
       /\ errno = "EINTR" => nintr < MaxEintr
       /\ SetM(write_fails(Interrupted(M, errno), errno))

SysPollFails ==
  /\ status = "run"
  /\ sys.fn = "poll"
  /\ \E errno \in Errnos :
       /\ errno = "EINTR" => nintr < MaxEintr
       /\ SetM(poll_fails(Interrupted(M, errno), errno))

\* ---------------------------------------------------------------- the peer
\* The frame of a query as the peer sends it: tag, time, then the fields of
\* the variant in the order of the wire table.
EncodeQuery(q) ==
  Le32(q.tag) \o Le32(q.time) \o
  (CASE q.tag = Q_OPEN -> Le32(q.fid) \o q.path \o <<0>> \o q.mode \o <<0>>
     [] q.tag = Q_READ -> Le32(q.fid) \o Le32(q.pos) \o Le32(q.size)
     [] q.tag = Q_WRIT -> Le32(q.fid) \o Le32(q.pos) \o Le32(q.size) \o q.buf
     [] q.tag = Q_CLOS -> Le32(q.fid)
     [] q.tag = Q_SIZE -> Le32(q.fid)
     [] q.tag = Q_SEEN -> Le32(q.fid) \o Le32(q.pos)
     [] q.tag = Q_CHLD -> Le32(q.pid)
     [] q.tag = Q_BACK -> Le32(q.pid) \o Le32(q.cid) \o Le32(q.exitcode)
     [] q.tag = Q_ACCS -> q.path \o <<0>> \o Le32(q.flags)
     [] q.tag = Q_STAT -> q.path \o <<0>>
     [] q.tag = Q_GPIC -> q.path \o <<0>> \o Le32(q.type) \o Le32(q.page)
     [] q.tag = Q_SPIC -> q.path \o <<0>> \o Le32(q.type) \o Le32(q.page)
                          \o Le32(q.bounds0) \o Le32(q.bounds1)
                          \o Le32(q.bounds2) \o Le32(q.bounds3)
     [] OTHER -> <<>>)

RECURSIVE EncodeAll(_)
EncodeAll(qs) == IF qs = <<>> THEN <<>> ELSE EncodeQuery(Head(qs)) \o EncodeAll(Tail(qs))

\* Where the frames of the script end in the stream.
RECURSIVE FrameEnds(_, _)
FrameEnds(qs, from) ==
  IF qs = <<>> THEN {}
  ELSE {from + Len(EncodeQuery(Head(qs)))}
       \cup FrameEnds(Tail(qs), from + Len(EncodeQuery(Head(qs))))

\* The peer writes the rest of the stream at once, or the rest of the frame
\* it is in, or a piece of it: the bytes of the tag one by one, the rest by
\* halves.
PeerSizes ==
  LET ends == {e \in FrameEnds(script, 0) : e > nsent}
      end == IF ends = {} THEN Len(stream)
             ELSE CHOOSE e \in ends : \A f \in ends : e <= f
      starts == {0} \cup {e \in FrameEnds(script, 0) : e <= nsent}
      start == CHOOSE e \in starts : \A f \in starts : e >= f
      rest == end - nsent
  IN {Len(stream) - nsent, rest,
      IF nsent - start < 4 THEN 1 ELSE (rest + 1) \div 2}

PeerSend ==
  /\ ~closed
  /\ nsent < Len(stream)
  /\ \E k \in PeerSizes : nsent' = nsent + k
  /\ UNCHANGED <<prog, stream, closed, ub, script, msgs>>

PeerClose ==
  /\ ~closed
  /\ closed' = TRUE
  /\ UNCHANGED <<prog, stream, nsent, ub, script, msgs>>

\* n bytes, none of them 0, no two neighbours equal.
Text(n, seed) == <<>> \o [k \in 1..n |-> 97 + ((k + seed) % 23)]
\* n bytes of a blob, zero bytes among them.
Blob(n, seed) == <<>> \o [k \in 1..n |-> (k * seed) % 251]

TmpA == <<47, 116, 109, 112, 47, 97>>
ModeR == <<114>>

\* The queries the peer chooses from.
Catalog ==
  <<[Q0 EXCEPT !.tag = Q_OPEN, !.time = 42, !.fid = 3, !.path = TmpA, !.mode = ModeR],
    [Q0 EXCEPT !.tag = Q_WRIT, !.time = 7, !.fid = 3, !.pos = 258, !.size = 5,
               !.buf = <<1, 2, 0, 4, 5>>],
    [Q0 EXCEPT !.tag = Q_OPEN, !.time = 0, !.fid = 0],
    [Q0 EXCEPT !.tag = Q_READ, !.time = 16909060, !.fid = 4, !.pos = 65536, !.size = 4096],
    [Q0 EXCEPT !.tag = Q_WRIT, !.time = 1, !.fid = 5, !.pos = 0, !.size = 0],
    [Q0 EXCEPT !.tag = Q_CLOS, !.time = 2, !.fid = 255],
    [Q0 EXCEPT !.tag = Q_OPEN, !.time = 3, !.fid = 9,
               !.path = Text(INIT_BUF_SIZE + 3, 0), !.mode = Text(2, 5)],
    [Q0 EXCEPT !.tag = Q_SIZE, !.time = 4, !.fid = 0 - 1],
    [Q0 EXCEPT !.tag = Q_SEEN, !.time = 5, !.fid = 6, !.pos = 1000],
    [Q0 EXCEPT !.tag = Q_WRIT, !.time = 6, !.fid = 6, !.pos = 10,
               !.size = INIT_BUF_SIZE + 1, !.buf = Blob(INIT_BUF_SIZE + 1, 7)],
    [Q0 EXCEPT !.tag = Q_CHLD, !.time = 8, !.pid = 4242],
    [Q0 EXCEPT !.tag = Q_BACK, !.time = 9, !.pid = 4242, !.cid = 4243,
               !.exitcode = 0 - 2],
    [Q0 EXCEPT !.tag = Q_ACCS, !.time = 10, !.path = TmpA, !.flags = 4],
    [Q0 EXCEPT !.tag = Q_STAT, !.time = 11, !.path = <<>>],
    [Q0 EXCEPT !.tag = Q_GPIC, !.time = 12, !.path = Text(3, 1), !.type = 1, !.page = 2],
    [Q0 EXCEPT !.tag = Q_SPIC, !.time = 13, !.path = TmpA, !.type = 2, !.page = 0,
               !.bounds0 = 1065353216, !.bounds1 = 0 - 1082130432,
               !.bounds2 = 0, !.bounds3 = 1073741824]>>

\* The runs of MaxFrames consecutive queries of the catalog.
Scripts ==
  {[j \in 1..MaxFrames |-> Catalog[((k + j - 2) % Len(Catalog)) + 1]] :
     k \in 1..Len(Catalog)}

\* The outcomes of undefined behaviour.  Only the runs of SpecStream reach
\* it; the runs that send no negative size never read ub.
UBOutcomes == {"trap", "skip"}
NoUB == "trap"

\* The channel after channel_new.
InitChannel ==
  /\ c = channel_new /\ todo = <<>> /\ loc = Loc0 /\ r = R0 /\ sys = NoSys
  /\ status = "idle" /\ ret = [fn |-> "", val |-> FALSE]
  /\ nsent = 0 /\ nread = 0 /\ closed = FALSE /\ out = <<>> /\ spins = 0
  /\ decoded = <<>> /\ c_in = channel_new /\ arg = NoArg /\ emit_in = 0
  /\ ncalls = 0 /\ wire = <<>> /\ nintr = 0

\* ---------------------------------------------------------------- decoding
Call_channel_read_query ==
  /\ status = "idle"
  /\ SetM(Call(M, channel_read_query_code, NoArg))

Call_channel_has_pending_query ==
  /\ status = "idle"
  /\ \E timeout \in {0, 0 - 1} :
       SetM(Call(M, channel_has_pending_query_code(timeout), NoArg))

InitDecode ==
  /\ InitChannel
  /\ ub = NoUB
  /\ script \in Scripts
  /\ msgs = <<>>
  /\ stream = EncodeAll(script)

NextDecode ==
  \/ Call_channel_read_query
  \/ Call_channel_has_pending_query
  \/ SysRead
  \/ SysReadEof
  \/ SysPoll
  \/ PeerSend
  \/ PeerClose

SpecDecode == InitDecode /\ [][NextDecode]_vars

\* ---------------------------------------------------------------- handshake
\* What the peer sends in answer to the handshake: the client's greeting, the
\* greeting followed by the start of a frame, greetings wrong in one byte,
\* the server's own greeting, one with a zero byte in it, and one cut short.
Replies ==
  {HND_CLIENT,
   HND_CLIENT \o Le32(Q_CLOS),
   [HND_CLIENT EXCEPT ![12] = 50],
   [HND_CLIENT EXCEPT ![1] = 116],
   HND_SERVER,
   [HND_CLIENT EXCEPT ![6] = 0],
   [HND_CLIENT EXCEPT ![12] = 0],
   SubSeq(HND_CLIENT, 1, 5)}

Call_channel_handshake ==
  /\ status = "idle"
  /\ ncalls = 0
  /\ SetM(Call([M EXCEPT !.ncalls = @ + 1], channel_handshake_code, NoArg))

InitHandshake ==
  /\ InitChannel
  /\ ub = NoUB
  /\ script = <<>>
  /\ msgs = <<>>
  /\ stream \in Replies

NextHandshake ==
  \/ Call_channel_handshake
  \/ SysWrite
  \/ SysRead
  \/ SysReadEof
  \/ PeerSend
  \/ PeerClose

SpecHandshake == InitHandshake /\ [][NextHandshake]_vars

\* ----------------------------------------------------------------- encoding
\* The storage of the union of an answer_t or ask_t: first word x, the others
\* all different.
Union(x) == [k \in 1..UnionWords |-> IF k = 1 THEN x ELSE 1000 * k + 7]

Answer(tag, x) == [fn |-> "channel_write_answer", a |-> [tag |-> tag, u |-> Union(x)]]
Ask(tag, x) == [fn |-> "channel_write_ask", a |-> [tag |-> tag, u |-> Union(x)]]

\* The messages the caller chooses from: every variant; blobs of no byte, of
\* the 5 bytes of the example and of the sizes around the two limits of
\* write_bytes behind a tag and a size (8 bytes); a tag that is none.
Messages ==
  <<Answer(A_DONE, 0),
    Answer(A_READ, 5),
    Answer(A_STAT, ACCS_ENOENT),
    [fn |-> "channel_write_answer",
     a |-> [tag |-> A_GPIC,
            u |-> [Union(1065353216) EXCEPT ![2] = 0 - 1082130432, ![3] = 0,
                                            ![4] = 1073741824]]],
    Answer(A_READ, BUF_SIZE + 1),
    Answer(A_PASS, 0),
    Answer(A_OPEN, BUF_SIZE - 8),
    Answer(A_FORK, 0),
    Answer(A_READ, 0),
    Answer(A_STAT, ACCS_OK),
    Answer(A_OPEN, BUF_SIZE - 7),
    Answer(A_ACCS, ACCS_PASS),
    Ask(C_TERM, 4242),
    Answer(A_READ, BUF_SIZE - 8),
    Ask(C_FLSH, 0),
    Answer(A_SIZE, 0 - 1),
    Answer(A_OPEN, BUF_SIZE + 1),
    Answer(A_STAT, ACCS_PASS),
    Answer(A_ACCS, ACCS_EACCES),
    Answer(A_OPEN, 5),
    Answer(A_SIZE, 65536),
    Answer(0, 0),
    Answer(A_OPEN, 0),
    Ask(A_DONE, 0)>>

\* The 32-bit words from..to of a union, as they lie in memory.
RECURSIVE Words(_, _, _)
Words(u, from, to) ==
  IF from > to THEN <<>> ELSE Le32(u[from]) \o Words(u, from + 1, to)

\* The frame of an answer or an ask by the encoding table: the tag, then the
\* fields of the variant in table order; buf is the staged blob.
WireFrame(a, buf) ==
  Le32(a.tag) \o
  (CASE a.tag \in {A_ACCS, A_SIZE, C_TERM} -> Words(a.u, 1, 1)
     [] a.tag = A_GPIC -> Words(a.u, 1, 4)
     [] a.tag \in {A_READ, A_OPEN} -> Words(a.u, 1, 1) \o Bytes(buf, 0, a.u[1])
     [] a.tag = A_STAT ->
          Words(a.u, 1, 1)
          \o (IF a.u[1] = ACCS_OK THEN Words(a.u, 2, UnionWords) ELSE <<>>)
     [] OTHER -> <<>>)

\* The runs of MaxFrames consecutive messages.
MessageScripts ==
  {[j \in 1..MaxFrames |-> Messages[((k + j - 2) % Len(Messages)) + 1]] :
     k \in 1..Len(Messages)}

\* The caller passes the next message of the script; a blob it has staged.
Call_channel_write_answer ==
  /\ status = "idle"
  /\ ncalls < Len(msgs)
  /\ LET msg == msgs[ncalls + 1] IN
       /\ msg.fn = "channel_write_answer"
       /\ msg.a.tag \in {A_READ, A_OPEN} => msg.a.u[1] <= Len(c.buf)
       /\ SetM(Call([M EXCEPT !.ncalls = @ + 1,
                              !.wire = @ \o WireFrame(msg.a, c.buf)],
                    channel_write_answer_code(msg.a), msg.a))

Call_channel_write_ask ==
  /\ status = "idle"
  /\ ncalls < Len(msgs)
  /\ LET msg == msgs[ncalls + 1] IN
       /\ msg.fn = "channel_write_ask"
       /\ SetM(Call([M EXCEPT !.ncalls = @ + 1,
                              !.wire = @ \o WireFrame(msg.a, c.buf)],
                    channel_write_ask_code(msg.a), msg.a))

Call_channel_flush ==
  /\ status = "idle"
  /\ SetM(CallKeep(M, channel_flush_code))

\* channel_write_buffer(t, n), the caller then filling the n bytes.
Call_channel_write_buffer ==
  /\ status = "idle"
  /\ \E n \in {5, BUF_SIZE + 1} :
       /\ Len(c.buf) < n
       /\ LET t == channel_write_buffer(c, n)
              m == [M EXCEPT !.arg = [NoArg EXCEPT !.u = <<n>>], !.c_in = c]
          IN IF Mabort(t) THEN SetM(Abort(m))
             ELSE SetM(Return([m EXCEPT !.c = [t EXCEPT !.buf = Store(@, 0, Blob(n, n))]],
                              "channel_write_buffer", TRUE))

InitEncode ==
  /\ InitChannel
  /\ ub = NoUB
  /\ script = <<>>
  /\ msgs \in MessageScripts
  /\ stream = <<>>

NextEncode ==
  \/ Call_channel_write_answer
  \/ Call_channel_write_ask
  \/ Call_channel_flush
  \/ Call_channel_write_buffer
  \/ SysWrite

SpecEncode == InitEncode /\ [][NextEncode]_vars

\* ------------------------------------------------------------ unknown tags
\* A frame with a tag that is no query tag: the tag and a timestamp.
BadQuery(tag) == [Q0 EXCEPT !.tag = tag, !.time = 77]

BadScripts ==
  {<<BadQuery(0)>>,
   <<BadQuery(A_DONE), Catalog[6]>>,
   <<Catalog[6], BadQuery(Q_OPEN + 1)>>,
   <<BadQuery(0 - 1)>>}

BadMessageScripts ==
  {<<Answer(0, 0)>>,
   <<Answer(C_TERM, 1)>>,
   <<Ask(A_DONE, 0)>>,
   <<Ask(C_FLSH, 0), Ask(Q_OPEN, 3)>>}

InitBadTag ==
  /\ InitChannel
  /\ ub = NoUB
  /\ script \in BadScripts
  /\ stream = EncodeAll(script)
  /\ msgs \in BadMessageScripts

NextBadTag ==
  \/ Call_channel_read_query
  \/ Call_channel_write_answer
  \/ Call_channel_write_ask
  \/ SysRead
  \/ SysReadEof
  \/ PeerSend
  \/ PeerClose

SpecBadTag == InitBadTag /\ [][NextBadTag]_vars

\* ------------------------------------------------------------ interruptions
\* A run that decodes and a run that writes, system calls failing in both.
EintrScripts == {<<Catalog[10]>>}

EintrMessageScripts == {<<Messages[2], Messages[13]>>}

InitEintr ==
  /\ InitChannel
  /\ ub = NoUB
  /\ \/ script \in EintrScripts /\ msgs = <<>>
     \/ script = <<>> /\ msgs \in EintrMessageScripts
  /\ stream = EncodeAll(script)

NextEintr ==
  \/ Call_channel_read_query
  \/ Call_channel_has_pending_query
  \/ Call_channel_write_answer
  \/ Call_channel_write_ask
  \/ Call_channel_flush
  \/ Call_channel_write_buffer
  \/ SysRead
  \/ SysReadEof
  \/ SysReadFails
  \/ SysWrite
  \/ SysWriteFails
  \/ SysPoll
  \/ SysPollFails
  \/ PeerSend
  \/ PeerClose

SpecEintr == InitEintr /\ [][NextEintr]_vars

\* ------------------------------------------------------- scratch growth
\* A Q_OPEN whose path has n bytes and whose mode has k.
Open(n, k) ==
  [Q0 EXCEPT !.tag = Q_OPEN, !.time = 3, !.fid = 9,
             !.path = Text(n, 0), !.mode = Text(k, 5)]

\* Streams that make the scratch buffer grow: twice inside a path, then
\* inside a payload; exactly at the first byte of a mode; and one that does
\* not make it grow.
ScratchScripts ==
  {<<Open((2 * INIT_BUF_SIZE) + 3, 2), Catalog[10]>>,
   <<Open(INIT_BUF_SIZE - 1, 3)>>,
   <<Catalog[1], Catalog[2]>>}

InitScratch ==
  /\ InitChannel
  /\ ub = NoUB
  /\ script \in ScratchScripts
  /\ stream = EncodeAll(script)
  /\ msgs = <<>>

NextScratch ==
  \/ Call_channel_read_query
  \/ Call_channel_write_buffer
  \/ SysRead
  \/ SysReadEof
  \/ PeerSend
  \/ PeerClose

SpecScratch == InitScratch /\ [][NextScratch]_vars

\* ------------------------------------------------------ poll, then decode
\* The caller polls before decoding: channel_read_query is called only right
\* after channel_has_pending_query has returned true.
Call_channel_read_query_polled ==
  /\ ret.fn = "channel_has_pending_query" /\ ret.val
  /\ Call_channel_read_query

PolledScripts == {<<Catalog[6], Catalog[1]>>, <<Catalog[13]>>}

InitPolled ==
  /\ InitChannel
  /\ ub = NoUB
  /\ script \in PolledScripts
  /\ stream = EncodeAll(script)
  /\ msgs = <<>>

NextPolled ==
  \/ Call_channel_has_pending_query
  \/ Call_channel_read_query_polled
  \/ SysRead
  \/ SysReadEof
  \/ SysPoll
  \/ PeerSend
  \/ PeerClose

SpecPolled == InitPolled /\ [][NextPolled]_vars

\* ---------------------------------------------------------- any size field
\* A Q_WRIT frame whose size field is size, followed by 5 bytes.
Writ(size) ==
  [Q0 EXCEPT !.tag = Q_WRIT, !.time = 21, !.fid = 3, !.pos = 0, !.size = size,
             !.buf = <<9, 8, 0, 7, 6>>]

\* The values of the size field: a true size, negative sizes that go back
\* inside and below the input buffer, the largest size, and the sizes around
\* the largest capacity the doubling can reach.
WritSizes ==
  {5, 0 - 1, 0 - 5, 0 - 64, 2147483647, 1073741824, 1073741825}

StreamScripts == {<<Writ(n)>> : n \in WritSizes}

InitStream ==
  /\ InitChannel
  /\ ub \in UBOutcomes
  /\ script \in StreamScripts
  /\ stream = EncodeAll(script)
  /\ msgs = <<Messages[10], Messages[13]>>

NextStream ==
  \/ Call_channel_read_query
  \/ Call_channel_has_pending_query
  \/ Call_channel_write_answer
  \/ Call_channel_write_ask
  \/ Call_channel_flush
  \/ SysRead
  \/ SysReadEof
  \/ SysWrite
  \/ SysPoll
  \/ PeerSend
  \/ PeerClose

SpecStream == InitStream /\ [][NextStream]_vars

\* ------------------------------------------------------- reference decoding
\* The program over a stream that is there as a whole and then ends.
Machine(str) ==
  [c |-> channel_new, todo |-> <<>>, loc |-> Loc0, r |-> R0, sys |-> NoSys,
   status |-> "idle", ret |-> [fn |-> "", val |-> FALSE], stream |-> str,
   nsent |-> Len(str), nread |-> 0, closed |-> TRUE, out |-> <<>>,
   spins |-> 0, decoded |-> <<>>, c_in |-> channel_new, arg |-> NoArg,
   emit_in |-> 0, ncalls |-> 0, wire |-> <<>>, nintr |-> 0, ub |-> "trap"]

\* channel_read_query called again and again, every read() returning all the
\* bytes it can, until a call returns 0, aborts or cannot end.
RECURSIVE DecodeAtOnce(_)
DecodeAtOnce(m) ==
  IF m.status = "abort" THEN m
  ELSE IF m.status = "idle"
  THEN IF m.ret.fn = "channel_read_query" /\ ~m.ret.val THEN m
       ELSE DecodeAtOnce(Call(m, channel_read_query_code, NoArg))
  ELSE LET n == Min(m.sys.size, m.nsent - m.nread)
       IN IF n = 0 /\ m.sys.fn = "buffered_read_at_least" /\ m.sys.got < m.sys.atleast
          THEN m
          ELSE DecodeAtOnce(read_returns(m, n))

\* ------------------------------------------------------------------ claims
\* The bytes of the stream the decoder has consumed.
Consumed == nread - (c.input_len - c.input_pos)

\* Where the k-th frame of the script ends in the stream.
FrameEnd(k) == Len(EncodeAll(SubSeq(script, 1, k)))

ReadQueryReturned(v) ==
  status = "idle" /\ ret.fn = "channel_read_query" /\ ret.val = v

ReadQueryReturnedIn(m) ==
  m.status = "idle" /\ m.ret.fn = "channel_read_query" /\ ~m.ret.val

\* C1: when the peer sends the frames 'tag, timestamp, fields in table order'
\* of queries of every variant, each channel_read_query that returns true has
\* decoded the next query sent, with tag, time and every field (strings and
\* blobs by their bytes) equal to the sent ones, and has consumed exactly the
\* bytes of the frames decoded so far; a call returns false only behind the
\* last frame sent, and the program aborts only when the peer closed the
\* stream inside a frame.
C1_RoundTrip ==
  /\ Len(decoded) <= Len(script)
  /\ \A k \in 1..Len(decoded) : decoded[k] = script[k]
  /\ ReadQueryReturned(TRUE) =>
       /\ decoded[Len(decoded)] = query_value(r, c)
       /\ Consumed = FrameEnd(Len(decoded))
  /\ ReadQueryReturned(FALSE) => Consumed = nsent /\ Consumed = FrameEnd(Len(decoded))
  /\ status = "abort" => closed /\ nsent \notin {FrameEnd(k) : k \in 0..Len(script)}

\* C1 witness: every frame of a script holding the long path (scratch grown
\* while reading it) has been decoded.
C1_Witness ==
  /\ ReadQueryReturned(TRUE)
  /\ Len(decoded) = Len(script)
  /\ \E k \in 1..Len(decoded) : decoded[k].tag = Q_OPEN /\ Len(decoded[k].path) > INIT_BUF_SIZE
  /\ c.buf_size > INIT_BUF_SIZE

\* C2: whatever the split of the bytes across read() calls, the queries
\* decoded are those decoded when every read() returns all the bytes at once.
C2_ChunkingIndependent ==
  (status = "idle" /\ ret.fn = "channel_read_query") =>
     LET ref == DecodeAtOnce(Machine(SubSeq(stream, 1, IF closed THEN nsent ELSE Len(stream))))
     IN /\ Len(decoded) <= Len(ref.decoded)
        /\ decoded = SubSeq(ref.decoded, 1, Len(decoded))
        /\ ~ret.val => decoded = ref.decoded /\ ReadQueryReturnedIn(ref)

\* C2 witness: every frame was decoded and the last byte of the last one, the
\* end of a string, came alone from a read().
C2_Witness ==
  /\ ReadQueryReturned(TRUE)
  /\ Len(decoded) = Len(script)
  /\ decoded[Len(decoded)].tag = Q_OPEN
  /\ c.input_len = 1 /\ c.input_pos = 1

\* C4 as claimed: once read() has returned 0 inside a refill that still needs
\* a byte, the call has ended in abort.  (spins counts the rounds of the loop
\* of buffered_read_at_least that follow such a read.)
C4_EofInRefillAborts == spins > 0 => status = "abort"

\* C5 as claimed: channel_read_query returns false only with nothing staged
\* and a stream that delivers no byte, and then the input cursor, the input
\* length, the output buffer and the scratch buffer are as before the call.
C5_FalseLeavesCursors ==
  ReadQueryReturned(FALSE) =>
    /\ c_in.input_pos = c_in.input_len
    /\ InFlight = 0
    /\ c.input_pos = c_in.input_pos /\ c.input_len = c_in.input_len
    /\ c.output_buffer = c_in.output_buffer /\ c.output_pos = c_in.output_pos
    /\ c.buf = c_in.buf /\ c.buf_size = c_in.buf_size

\* C5 amended: channel_read_query returns false only when nothing was staged
\* at the call and read() returned 0 (the stream is closed and empty); it has
\* then consumed no byte beyond the frames decoded before, the output buffer
\* and the scratch buffer are unchanged, and the input cursor and the input
\* length are both 0 (the refill resets them).  With a byte of a frame staged
\* or in flight it does not return false.
C5_FalseOnlyAtEnd ==
  ReadQueryReturned(FALSE) =>
    /\ c_in.input_pos = c_in.input_len
    /\ closed /\ InFlight = 0
    /\ Consumed = nsent /\ Consumed = FrameEnd(Len(decoded))
    /\ c.input_pos = 0 /\ c.input_len = 0
    /\ c.output_buffer = c_in.output_buffer /\ c.output_pos = c_in.output_pos
    /\ c.buf = c_in.buf /\ c.buf_size = c_in.buf_size
    /\ c.buf_addr = c_in.buf_addr

\* C5 witness: a call returned false after a query had been decoded, the
\* cursor standing behind it when the call began.
C5_Witness ==
  /\ ReadQueryReturned(FALSE)
  /\ Len(decoded) >= 1
  /\ c_in.input_pos > 0

\* The program is in the read() of the tag read (crefill(t, 0)), nothing is
\* staged, nothing is in flight and the stream is open.
TagWait ==
  /\ status = "run" /\ sys.fn = "buffered_read_at_least" /\ sys.atleast = 0
  /\ InFlight = 0 /\ ~closed

\* C6 as claimed: with nothing staged and no byte available on the open
\* stream, the tag read does not wait in read().
C6_TagReadNeverWaits == ~TagWait

\* C6 amended: with nothing staged and no byte available on the open stream
\* the tag read waits in read(): the program does not move until the peer
\* writes or closes; 'no data' is returned only at the end of a closed stream.
C6_TagReadWaits ==
  [][ /\ TagWait => (prog' = prog)
      /\ ReadQueryReturned(FALSE)' => (closed' /\ InFlight' = 0) ]_vars

\* C6 witness: the call waits for the tag of the second frame.
C6_Witness == TagWait /\ Len(decoded) = 1 /\ nsent = FrameEnd(1)

\* A step in which channel_has_pending_query returns from poll().
PollReturns == status = "run" /\ sys.fn = "poll" /\ status' = "idle"
\* A step in which channel_has_pending_query is called and enters poll().
PollEntered == status = "idle" /\ status' = "run" /\ sys'.fn = "poll"
\* A step in which channel_has_pending_query is called and returns at once.
PendingAtOnce ==
  /\ status = "idle" /\ status' = "idle" /\ prog' # prog
  /\ ret'.fn = "channel_has_pending_query"

\* C7 as claimed: true without polling when input is staged; with timeout 0
\* and nothing staged, false when the peer has written nothing and true when
\* the peer has written a full or partial frame; no input is consumed and no
\* cursor changes.
C7_PendingAsClaimed ==
  [][ /\ PendingAtOnce => (ret'.val /\ c.input_pos # c.input_len)
      /\ PollEntered => (c.input_pos = c.input_len)
      /\ (PollReturns /\ sys.timeout = 0) =>
           /\ nsent = 0 => ~ret'.val
           /\ InFlight > 0 => ret'.val
      /\ (PendingAtOnce \/ PollEntered \/ PollReturns) =>
           (c' = c /\ nread' = nread) ]_vars

\* C7 amended: as claimed, but with nothing staged and timeout 0 the result is
\* false when nothing is in flight and the peer has not closed the stream;
\* it is true when bytes are in flight and also when the peer has closed the
\* stream, whatever it wrote.
C7_Pending ==
  [][ /\ PendingAtOnce => (ret'.val /\ c.input_pos # c.input_len)
      /\ PollEntered => (c.input_pos = c.input_len)
      /\ (PollReturns /\ sys.timeout = 0) =>
           /\ (InFlight = 0 /\ ~closed) => ~ret'.val
           /\ (InFlight > 0 \/ closed) => ret'.val
      /\ (PendingAtOnce \/ PollEntered \/ PollReturns) =>
           (c' = c /\ nread' = nread) ]_vars

\* C7 witness: the peer has written the first bytes of a tag, nothing was
\* read or staged, and channel_has_pending_query returned true.
C7_Witness ==
  /\ status = "idle" /\ ret.fn = "channel_has_pending_query" /\ ret.val
  /\ nread = 0 /\ nsent \in 1..3 /\ ~closed

\* channel_handshake has returned v.
HandshakeReturned(v) ==
  status = "idle" /\ ret.fn = "channel_handshake" /\ ret.val = v

\* C3: channel_handshake writes the 12 bytes TEXPRESSOS01 and nothing else,
\* reads only once they are written, reads 12 bytes and no more, returns true
\* exactly when these are TEXPRESSOC01, and with any other 12 bytes returns
\* false; it aborts only when the stream ends before 12 bytes.
C3_Handshake ==
  /\ \E k \in 0..Len(HND_SERVER) : out = SubSeq(HND_SERVER, 1, k)
  /\ (sys.fn = "read_all" \/ nread > 0) => out = HND_SERVER
  /\ nread <= 12
  /\ (status = "idle" /\ ret.fn = "channel_handshake") =>
       /\ out = HND_SERVER
       /\ nread = 12
       /\ ret.val = (SubSeq(stream, 1, 12) = HND_CLIENT)
  /\ status = "abort" => (closed /\ nsent < 12)

\* C3 witness: the 12 bytes received differ from TEXPRESSOC01 in the last
\* byte only, and the handshake returned false.
C3_Witness ==
  /\ HandshakeReturned(FALSE)
  /\ Len(stream) = 12
  /\ SubSeq(stream, 1, 11) = SubSeq(HND_CLIENT, 1, 11)

\* The bytes written or staged for writing since the last message was passed
\* to channel_write_answer or channel_write_ask.
Emitted ==
  LET all == out \o Bytes(c.output_buffer, 0, c.output_pos)
  IN SubSeq(all, emit_in + 1, Len(all))

\* The last message passed to channel_write_answer (channel_write_ask) had
\* this tag, and the call, or a channel_flush after it, has returned.
Wrote(fn, tag) ==
  /\ status = "idle"
  /\ ret.fn \in {fn, "channel_flush"}
  /\ arg.tag = tag

Flushed == status = "idle" /\ ret.fn = "channel_flush"

\* The StatRecord on the wire: its fields as 32-bit words.
StatRecord(a) ==
  LET st == a_stat_stat(a)
  IN Le32(st.dev) \o Le32(st.ino) \o Le32(st.mode) \o Le32(st.nlink)
     \o Le32(st.uid) \o Le32(st.gid) \o Le32(st.rdev) \o Le32(st.size)
     \o Le32(st.blksize) \o Le32(st.blocks)
     \o Le32(st.atime.sec) \o Le32(st.atime.nsec)
     \o Le32(st.ctime.sec) \o Le32(st.ctime.nsec)
     \o Le32(st.mtime.sec) \o Le32(st.mtime.nsec)

C9_BlobFrameAsClaimed ==
  (Wrote("channel_write_answer", A_READ) \/ Wrote("channel_write_answer", A_OPEN)) =>
    /\ Emitted = Le32(arg.tag) \o Le32(arg.u[1]) \o SubSeq(c.buf, 1, arg.u[1])
    /\ arg.u[1] = 5 => Len(Emitted) = 12

\* C9 amended: for A_READ and A_OPEN channel_write_answer emits the tag, the
\* size and the size first bytes of the scratch buffer, for every size
\* staged: 8 + size bytes, 13 with size 5; after channel_flush all of them
\* are written.
C9_BlobFrame ==
  (Wrote("channel_write_answer", A_READ) \/ Wrote("channel_write_answer", A_OPEN)) =>
    /\ Emitted = Le32(arg.tag) \o Le32(arg.u[1]) \o SubSeq(c.buf, 1, arg.u[1])
    /\ Len(Emitted) = 8 + arg.u[1]
    /\ arg.u[1] = 5 => Len(Emitted) = 13
    /\ Flushed => (c.output_pos = 0 /\ Len(out) = emit_in + 8 + arg.u[1])

\* C9 witness: an A_READ answer larger than the output buffer was written
\* behind another message and flushed.
C9_Witness ==
  /\ Flushed /\ arg.tag = A_READ /\ arg.u[1] > BUF_SIZE
  /\ emit_in > 0 /\ c.output_pos = 0

\* The frame of a fixed-layout answer or ask: the tag, then its fields.
FixedFrame(a) ==
  Le32(a.tag) \o
  (CASE a.tag \in {A_DONE, A_PASS, A_FORK, C_FLSH} -> <<>>
     [] a.tag \in {A_ACCS, A_SIZE, C_TERM} -> Le32(a.u[1])
     [] a.tag = A_GPIC -> Le32(a.u[1]) \o Le32(a.u[2]) \o Le32(a.u[3]) \o Le32(a.u[4]))

\* C10: the fixed-layout answers and asks are emitted as the tag followed by
\* the fields in table order and nothing else: 4 bytes for A_DONE, A_PASS,
\* A_FORK and C_FLSH, 8 for A_ACCS, A_SIZE and C_TERM, 20 for A_GPIC.
C10_FixedFrames ==
  /\ \A tg \in {A_DONE, A_PASS, A_FORK, A_ACCS, A_SIZE, A_GPIC} :
       Wrote("channel_write_answer", tg) => Emitted = FixedFrame(arg)
  /\ \A tg \in {C_TERM, C_FLSH} :
       Wrote("channel_write_ask", tg) => Emitted = FixedFrame(arg)
  /\ (status = "idle" /\ ret.fn \in {"channel_write_answer", "channel_write_ask"}) =>
       /\ arg.tag \in {A_DONE, A_PASS, A_FORK, C_FLSH} => Len(Emitted) = 4
       /\ arg.tag \in {A_ACCS, A_SIZE, C_TERM} => Len(Emitted) = 8
       /\ arg.tag = A_GPIC => Len(Emitted) = 20

\* C10 witness: an A_GPIC answer was written behind another message and
\* flushed.
C10_Witness ==
  /\ Flushed /\ arg.tag = A_GPIC /\ emit_in > 0 /\ Len(out) = emit_in + 20

AnswerTags == {A_DONE, A_PASS, A_SIZE, A_READ, A_FORK, A_ACCS, A_STAT, A_OPEN, A_GPIC}
AskTags == {C_TERM, C_FLSH}

\* The last message passed to the writing side has a tag outside the variant
\* set of the function it was passed to.
BadMessage ==
  /\ ncalls >= 1
  /\ LET msg == msgs[ncalls] IN
       \/ msg.fn = "channel_write_answer" /\ msg.a.tag \notin AnswerTags
       \/ msg.fn = "channel_write_ask" /\ msg.a.tag \notin AskTags

\* The frames of the script before the first one with an unknown tag.
GoodFrames ==
  LET bad == {k \in 1..Len(script) : script[k].tag \notin QueryTags}
  IN IF bad = {} THEN Len(script)
     ELSE (CHOOSE k \in bad : \A j \in bad : k <= j) - 1

\* C11: channel_read_query never returns a query whose tag is none of the
\* twelve query tags, and once it has taken the (unknown) tag and the
\* timestamp of such a frame the process has aborted; a call of
\* channel_write_answer or channel_write_ask with a tag outside its variant
\* set does not return, it aborts.
C11_UnknownTagFatal ==
  /\ \A k \in 1..Len(decoded) : decoded[k].tag \in QueryTags
  /\ ReadQueryReturned(TRUE) => r.tag \in QueryTags
  /\ Len(decoded) <= GoodFrames
  /\ (GoodFrames < Len(script) /\ Consumed > FrameEnd(GoodFrames) + 4)
       => status = "abort"
  /\ BadMessage => status = "abort"

\* C11 witness: after a query was decoded, the frame with the unknown tag
\* was read up to its timestamp and the process aborted.
C11_Witness ==
  /\ status = "abort"
  /\ Len(decoded) = 1 /\ GoodFrames = 1 /\ Len(script) = 2
  /\ Consumed = FrameEnd(1) + 8
  /\ ~BadMessage

\* The bytes written to the stream followed by the bytes staged for writing.
WireOut == out \o Bytes(c.output_buffer, 0, c.output_pos)

\* C12: a read(), write() or poll() that fails with EINTR is called again
\* with nothing transferred and nothing changed (no cursor, no buffer, no
\* place in the code), up to MaxEintr times in a run; and the results are
\* those of a run without interruptions: the queries decoded are the queries
\* sent, the bytes written and staged are the frames of the messages written,
\* and a readiness answer of false is given only with nothing to read on an
\* open stream.
C12_EintrRetried ==
  [][ /\ nintr' # nintr =>
           /\ nintr' = nintr + 1
           /\ UNCHANGED <<c, todo, loc, r, sys, status, ret, nread, out,
                          decoded, wire, stream, nsent, closed>>
      /\ (status' = "idle" /\ ret'.fn = "channel_read_query") =>
           /\ decoded' = SubSeq(script, 1, Len(decoded'))
           /\ ret'.val => Consumed' = FrameEnd(Len(decoded'))
      /\ status' = "idle" => WireOut' = wire'
      /\ (status' = "idle" /\ ret'.fn = "channel_flush") => out' = wire'
      /\ PollReturns => ret'.val = (InFlight > 0 \/ closed) ]_vars

\* C12 witness: a query whose payload was read by read_all has been decoded
\* in a run with MaxEintr interruptions.
C12_Witness ==
  /\ nintr = MaxEintr
  /\ ReadQueryReturned(TRUE) /\ Len(decoded) = 1 /\ decoded[1].tag = Q_WRIT

\* C13 as claimed: over any input stream and any sequence of calls,
\* 0 <= input cursor <= input length <= 4096 and 0 <= output cursor <= 4096.
C13_CursorBounds ==
  /\ 0 <= c.input_pos /\ c.input_pos <= c.input_len /\ c.input_len <= BUF_SIZE
  /\ 0 <= c.output_pos /\ c.output_pos <= BUF_SIZE

\* 256 times a power of two, up to the largest an int holds.
RECURSIVE Doublings(_)
Doublings(n) ==
  IF n > 1073741824 THEN {}
  ELSE IF n = 1073741824 THEN {n}
  ELSE {n} \cup Doublings(2 * n)

\* C14: the scratch capacity starts at 256, changes only by doubling (it is
\* always 256 times a power of two and never shrinks), every byte written to
\* the scratch buffer lies below the capacity, after read_bytes(0, size) the
\* capacity is at least size and after channel_write_buffer(n) at least n.
C14_Capacity ==
  /\ c.buf_size \in Doublings(INIT_BUF_SIZE)
  /\ [][c'.buf_size \in Doublings(c.buf_size)]_vars
  /\ [](/\ c.buf_size \in Doublings(INIT_BUF_SIZE)
        /\ Len(c.buf) <= c.buf_size
        /\ (ReadQueryReturned(TRUE) /\ r.tag = Q_WRIT => c.buf_size >= r.size)
        /\ (status = "idle" /\ ret.fn = "channel_write_buffer"
              => c.buf_size >= arg.u[1]))

\* The capacity has doubled twice inside one string, a payload has then made
\* it grow no further, and the caller has asked for more than 4096 bytes.
C14_Witness ==
  /\ status = "idle" /\ ret.fn = "channel_write_buffer"
  /\ arg.u[1] = BUF_SIZE + 1 /\ c.buf_size = 2 * BUF_SIZE
  /\ Len(decoded) = 2 /\ decoded[1].tag = Q_OPEN /\ decoded[2].tag = Q_WRIT
  /\ Len(decoded[1].path) > 2 * INIT_BUF_SIZE

\* The query sent whose decoding the last channel_read_query returned.
Sent == script[Len(decoded)]

\* C15: after channel_read_query returns a Q_OPEN, path and mode point into
\* the current scratch allocation, mode starts at the offset of path plus the
\* length of path plus 1, and both hold the bytes sent, also when the buffer
\* grew while either was read; a growth inside a call keeps every byte the
\* call has stored so far.
C15_OpenStrings ==
  /\ [](ReadQueryReturned(TRUE) /\ r.tag = Q_OPEN =>
          /\ r.path.addr = c.buf_addr /\ r.mode.addr = c.buf_addr
          /\ r.path.off = 0
          /\ r.mode.off = r.path.off + Len(Sent.path) + 1
          /\ CStr(c, r.path) = Sent.path
          /\ CStr(c, r.mode) = Sent.mode)
  /\ [][status = "run" /\ c'.buf_size > c.buf_size =>
          /\ c'.buf_addr # c.buf_addr
          /\ SubSeq(c'.buf, 1, loc.pos) = SubSeq(c.buf, 1, loc.pos)]_vars

\* A Q_OPEN was returned whose path made the buffer double twice.
C15_Witness ==
  /\ ReadQueryReturned(TRUE) /\ r.tag = Q_OPEN
  /\ Len(Sent.path) > 2 * INIT_BUF_SIZE
  /\ c.buf_size = 4 * INIT_BUF_SIZE
  /\ c.buf_addr = 3

\* A Q_OPEN was returned whose mode begins at the old capacity: the buffer
\* grew while mode was read.
C15_WitnessMode ==
  /\ ReadQueryReturned(TRUE) /\ r.tag = Q_OPEN
  /\ r.mode.off = INIT_BUF_SIZE
  /\ c.buf_size = 2 * INIT_BUF_SIZE

\* s is the beginning of t.
IsPrefix(s, t) == Len(s) <= Len(t) /\ s = SubSeq(t, 1, Len(s))

\* The step is a call of channel_flush: it returns at once or waits in
\* write().
FlushCalled ==
  /\ status = "idle"
  /\ \/ status' = "idle" /\ ret'.fn = "channel_flush"
     \/ status' = "run" /\ todo'[Len(todo')].f = "channel_flush"

\* C16: with write() accepting any part of what it is given, between calls
\* the bytes written followed by the bytes staged in the output buffer are
\* the frames of the messages passed so far, in call order; inside a call the
\* bytes written followed by those the running write_all still holds are a
\* beginning of these frames; after channel_flush the output cursor is 0 and
\* every byte is written; channel_flush with nothing staged writes nothing.
C16_OutputConserved ==
  /\ [](status = "idle" => WireOut = wire)
  /\ [](status = "run" /\ sys.fn = "write_all" =>
          /\ Len(sys.data) > 0
          /\ IsPrefix(out \o sys.data, wire))
  /\ [](Flushed => c.output_pos = 0 /\ out = wire)
  /\ [][FlushCalled /\ c.output_pos = 0 =>
          status' = "idle" /\ out' = out /\ c' = c]_vars

\* A blob larger than the output buffer is being written directly behind
\* another message, and write() has accepted a part of it.
C16_Witness ==
  /\ status = "run" /\ sys.fn = "write_all"
  /\ arg.tag \in {A_READ, A_OPEN} /\ arg.u[1] > BUF_SIZE
  /\ c.output_pos = 0 /\ emit_in > 0
  /\ Len(out) > emit_in + 8
  /\ Len(sys.data) > 0 /\ Len(sys.data) < arg.u[1]

\* C17 as claimed: a channel_read_query that immediately follows a
\* channel_has_pending_query that returned true does not return false, also
\* when the peer has closed the stream.
C17_PolledNeverFalse == ~ReadQueryReturned(FALSE)

\* C17 amended: a channel_read_query that immediately follows a
\* channel_has_pending_query that returned true returns false only when the
\* peer has closed the stream and every byte it sent was consumed before the
\* call (nothing staged, nothing in flight): the readiness check answers
\* true at the end of a closed stream.  With a byte staged or in flight the
\* call does not return false.
C17_PolledFalseOnlyAtEnd ==
  ReadQueryReturned(FALSE) =>
    /\ closed /\ nread = nsent
    /\ c_in.input_pos = c_in.input_len
    /\ Consumed = nsent

\* Every frame sent was decoded by calls that each followed a true readiness
\* answer, and the call after one more true answer returned false.
C17_Witness ==
  /\ ReadQueryReturned(FALSE)
  /\ closed /\ nsent = Len(stream)
  /\ decoded = script

\* The bytes emitted for the last message after its tag and its flag.
AfterFlag == SubSeq(Emitted, 9, Len(Emitted))

\* A success A_STAT answer was the last message written.
StatSuccess ==
  Wrote("channel_write_answer", A_STAT) /\ a_stat_flag(arg) = ACCS_OK

\* C18 as claimed: for a success A_STAT answer the bytes after the tag and
\* the flag are 9 u32 values and 3 timestamps of two u32 each: 15 words, 60
\* bytes.
C18_StatSizeAsClaimed == StatSuccess => Len(AfterFlag) = 4 * (9 + (3 * 2))

\* C18 amended: for a success A_STAT answer the bytes after the tag and the
\* flag are the 13 fields of the StatRecord: the 10 u32 values dev, ino, mode,
\* nlink, uid, gid, rdev, size, blksize, blocks and then the 3 timestamps
\* atime, ctime, mtime, each a (u32 sec, u32 nsec) pair: 16 words, 64 bytes.
C18_StatSize ==
  StatSuccess =>
    LET st == a_stat_stat(arg) IN
    /\ Len(AfterFlag) = 4 * (10 + (3 * 2))
    /\ Len(AfterFlag) = 64
    /\ SubSeq(AfterFlag, 1, 40) =
         Le32(st.dev) \o Le32(st.ino) \o Le32(st.mode) \o Le32(st.nlink)
         \o Le32(st.uid) \o Le32(st.gid) \o Le32(st.rdev) \o Le32(st.size)
         \o Le32(st.blksize) \o Le32(st.blocks)
    /\ SubSeq(AfterFlag, 41, 64) =
         Le32(st.atime.sec) \o Le32(st.atime.nsec)
         \o Le32(st.ctime.sec) \o Le32(st.ctime.nsec)
         \o Le32(st.mtime.sec) \o Le32(st.mtime.nsec)

\* A success A_STAT answer was written behind another message and flushed.
C18_Witness ==
  /\ StatSuccess /\ Flushed
  /\ emit_in > 0 /\ Len(out) = emit_in + 72

\* C19 as claimed: for every value of the size field of a Q_WRIT frame
\* read_bytes ends with the capacity grown to at least size and size payload
\* bytes copied, the input cursor within [0, input length] and the capacity
\* positive: the process ends only when the peer closes the stream inside the
\* frame, and a returned Q_WRIT has its size bytes in the scratch buffer.
C19_AnySizeRead ==
  /\ c.buf_size > 0
  /\ 0 <= c.input_pos /\ c.input_pos <= c.input_len
  /\ status # "crash"
  /\ status = "abort" => closed
  /\ (ReadQueryReturned(TRUE) /\ r.tag = Q_WRIT) =>
       /\ r.size >= 0
       /\ c.buf_size >= r.size
       /\ Len(c.buf) >= r.size

\* The program is inside crefill, in the loop of buffered_read_at_least.
InRefill == status = "run" /\ sys.fn = "buffered_read_at_least"

\* The program is inside read_bytes, in the read_all that follows the drain.
InDirectRead == status = "run" /\ sys.fn = "read_all"

\* The bytes staged and not yet consumed: [cursor, length), and inside
\* crefill, where the length is set on return, the compacted bytes followed
\* by those read so far.
Staged ==
  IF InRefill THEN Bytes(c.input_buffer, 0, sys.avail + sys.got)
  ELSE Bytes(c.input_buffer, c.input_pos, c.input_len - c.input_pos)

\* The bytes sent or to be sent by the peer that no read() has returned yet.
Unread == SubSeq(stream, nread + 1, Len(stream))

\* C20: the staged unread bytes are always the last bytes read from the
\* stream, in order; between calls the frames decoded, the staged bytes and
\* the bytes still in the stream make up the stream the peer sends; crefill
\* keeps the unread bytes, at the front of the buffer with cursor 0; in the
\* direct read of read_bytes the staged bytes drained and the bytes read
\* directly lie in the scratch buffer in stream order.
C20_InputConserved ==
  status # "abort" =>
    /\ Len(Staged) <= nread
    /\ Staged = SubSeq(stream, nread - Len(Staged) + 1, nread)
    /\ status = "idle" => EncodeAll(decoded) \o Staged \o Unread = stream
    /\ InRefill => c.input_pos = 0 /\ Len(c.input_buffer) = sys.avail + sys.got
    /\ InDirectRead =>
         /\ Staged = <<>>
         /\ Bytes(c.buf, 0, sys.pos) = SubSeq(stream, nread - sys.pos + 1, nread)

\* A payload was drained from the staged bytes in part and is being read
\* directly, behind a decoded frame.
C20_Witness ==
  /\ InDirectRead /\ sys.pos > 0 /\ Len(decoded) >= 1
  /\ nread < nsent

\* A refill is under way with unread bytes moved to the front of the buffer.
C20_WitnessRefill ==
  /\ InRefill /\ sys.avail > 0 /\ sys.got > 0 /\ Len(decoded) >= 1

====
